---- MODULE Spec2Model ----
(***************************************************************************)
(* A model of the PAXOS-Banking server: the per-node ledger (Blockchain    *)
(* and local Log), the balance computation, the admission decision of      *)
(* processTxnRequest, the request router and the consensus round driver.   *)
(***************************************************************************)
EXTENDS Integers, Sequences, FiniteSets, TLC

\* ------------------------------------------------------------------------
\* Program constants
\* ------------------------------------------------------------------------

FaultsAllowedNone == 1 - 1

\* common.FaultsAllowed
FaultsAllowed == 1

\* common.FOLLOWER, common.LEADER
FOLLOWER == "follower"
LEADER == "leader"

\* The keys of common.ServerPortMap: the three server ids.
Servers == {1, 2, 3}

\* The starting balance of getBalance.
StartBalance == 100

\* common.MaxReconnectAttempts
MaxReconnectAttempts == 3

\* ------------------------------------------------------------------------
\* Bounds of the model
\* ------------------------------------------------------------------------

\* Local-log entries over the whole cluster.
MaxLog == 2
\* Prepare rounds run over the whole cluster before a further consensus
\* request is taken.
MaxRounds == 1
\* Rounds one execPaxosRun may run before it reports a quorum failure.
MaxAttempts == 2
\* Transactions in a ledger (Blockchain and Log) drawn for the balance
\* functions.
MaxLedgerTxns == 2

\* Failed dials to one peer that are counted; the count stays there after.
MaxDials == 5

\* Amounts a client asks to transfer.
Amounts == {10, 100}

\* Client connections one server may serve (one task each).
Conns == {1, 2}
Tasks == Servers \X Conns

\* ------------------------------------------------------------------------
\* Data
\* ------------------------------------------------------------------------

\* common.TransferTxn
Txns == [Sender : Servers, Recvr : Servers, Amount : Amounts]
NoTxn == [Sender |-> 0, Recvr |-> 0, Amount |-> 0]

\* Server.Peers as InitServer fills it.
Peers(id) == Servers \ {id}

\* Server.AssociatedClient as InitServer sets it.
AssociatedClient(id) == id

NoBlock == [SeqNum |-> 0, Transactions |-> <<>>, ProposerId |-> 0]

VARIABLES
    Blockchain,       \* Server.Blockchain, per server: a sequence of blocks
    Log,              \* Server.Log, per server: a sequence of transactions
    SeqNum,           \* Server.SeqNum
    Status,           \* Server.Status
    AlreadyPromised,  \* Server.AlreadyPromised
    Redis,            \* the local log as last written to redis, per server
    conns,            \* the client connections being served (tasks)
    task,             \* per task: position and locals of its handler
    msgs,             \* messages written to a peer connection, not yet read
    read,             \* the messages of the running rounds that a peer has read
    topo              \* per server: the position of Start and Server.ServerConn

vars == <<Blockchain, Log, SeqNum, Status, AlreadyPromised, Redis, conns,
          task, msgs, read, topo>>

\* ------------------------------------------------------------------------
\* Balance (part_000)
\* ------------------------------------------------------------------------

\* The body of the loops of getBalance and getLocalBalance: two independent
\* ifs, so a transaction from the client to itself is added and subtracted.
applyTxn(balance, txn, client) ==
    LET b1 == IF txn.Recvr = client THEN balance + txn.Amount ELSE balance
    IN  IF txn.Sender = client THEN b1 - txn.Amount ELSE b1

RECURSIVE applyTxns(_, _, _)
applyTxns(balance, txns, client) ==
    IF txns = <<>> THEN balance
    ELSE applyTxns(applyTxn(balance, Head(txns), client), Tail(txns), client)

RECURSIVE applyBlocks(_, _, _)
applyBlocks(balance, blocks, client) ==
    IF blocks = <<>> THEN balance
    ELSE applyBlocks(applyTxns(balance, Head(blocks).Transactions, client),
                     Tail(blocks), client)

getBalanceElseIf(n) ==
    LET RECURSIVE f(_, _)
        f(b, txns) ==
            IF txns = <<>> THEN b
            ELSE LET txn == Head(txns)
                 IN f(IF txn.Recvr = AssociatedClient(n) THEN b + txn.Amount
                      ELSE IF txn.Sender = AssociatedClient(n) THEN b - txn.Amount
                      ELSE b, Tail(txns))
        RECURSIVE g(_, _)
        g(b, blocks) ==
            IF blocks = <<>> THEN b
            ELSE g(f(b, Head(blocks).Transactions), Tail(blocks))
    IN  g(StartBalance, Blockchain[n])

getBalance(n) == applyBlocks(StartBalance, Blockchain[n], AssociatedClient(n))

getLocalBalance(n) == applyTxns(getBalance(n), Log[n], AssociatedClient(n))

\* ------------------------------------------------------------------------
\* Admission (part_000)
\* ------------------------------------------------------------------------

checkIfTxnPossibleGeq(n, txn) ==
    LET balance == getLocalBalance(n)
    IN  IF balance < 0 THEN FALSE
        ELSE IF balance >= txn.Amount THEN FALSE ELSE TRUE

checkIfTxnPossibleOffByOne(n, txn) ==
    LET balance == getLocalBalance(n)
    IN  IF balance < 0 THEN FALSE
        ELSE IF balance + 1 > txn.Amount THEN FALSE ELSE TRUE

\* TRUE when a PAXOS run is required.
checkIfTxnPossible(n, txn) ==
    LET balance == getLocalBalance(n)
    IN  IF balance < 0 THEN FALSE
        ELSE IF balance > txn.Amount THEN FALSE ELSE TRUE

execLocalTxnPrepend(log, txn) == <<txn>> \o log

\* The log after execLocalTxn's append.
execLocalTxn(log, txn) == Append(log, txn)

\* ------------------------------------------------------------------------
\* Helpers over the state
\* ------------------------------------------------------------------------

\* common.ClientResponse, and the value of a connection nothing was written to.
NoResponse == [MessageType |-> "NONE", Balance |-> 0, ClientId |-> 0]

IdleTask == [pc |-> "idle", txn |-> NoTxn, balance |-> 0, logRead |-> <<>>,
             attempts |-> 0, promises |-> {}, result |-> "none",
             resp |-> NoResponse, decErr |-> FALSE, dropped |-> "NONE"]

TotalLog == Len(Log[1]) + Len(Log[2]) + Len(Log[3])

RoundsRun == (SeqNum[1] - 1) + (SeqNum[2] - 1) + (SeqNum[3] - 1)

Message(type, from, to, seq, id, block, chain) ==
    [Type |-> type, From |-> from, To |-> to, BallotSeq |-> seq,
     ProposerId |-> id, Block |-> block, Chain |-> chain]

\* The ballot a server proposes with: (SeqNum, Id).
Ballot(n) == <<SeqNum[n], n>>

\* The transfers the client of server n sends it: to itself or to the next
\* client.
ClientTxns(n) ==
    {txn \in Txns : /\ txn.Sender = AssociatedClient(n)
                    /\ txn.Recvr \in {AssociatedClient(n), (n % 3) + 1}}

\* Server.Peers in the order InitServer appends them.
PeerList(n) == IF n = 1 THEN <<2, 3>> ELSE IF n = 2 THEN <<1, 3>> ELSE <<1, 2>>

\* A server that is up: connected to both peers and accepting connections.
TopoUp ==
    [n \in Servers |-> [pc |-> "accept", idx |-> 2, attempt |-> 2, dials |-> 0,
                        conn |-> Peers(n)]]

\* ------------------------------------------------------------------------
\* InitServer (server.go)
\* ------------------------------------------------------------------------

InitServer ==
    /\ Blockchain = [n \in Servers |-> <<>>]
    /\ Log = [n \in Servers |-> <<>>]
    /\ SeqNum = [n \in Servers |-> 1]
    /\ Status = [n \in Servers |-> FOLLOWER]
    /\ AlreadyPromised = [n \in Servers |-> FALSE]

Init ==
    /\ InitServer
    /\ Redis = [n \in Servers |-> <<>>]
    /\ conns = {<<n, 1>> : n \in Servers}
    /\ task = [t \in Tasks |-> IdleTask]
    /\ msgs = {}
    /\ read = {}
    /\ topo = TopoUp

\* ------------------------------------------------------------------------
\* The consensus round of execPaxosRun
\* ------------------------------------------------------------------------

\* Promise or Accepted responses needed, the proposer's own vote included.
Quorum == FaultsAllowed + 1

sendPrepareSameBallot(t, txn, attempts) ==
    LET n == t[1]
        seq == IF attempts = 1 THEN SeqNum[n] + 1 ELSE SeqNum[n]
    IN  /\ SeqNum' = [SeqNum EXCEPT ![n] = seq]
        /\ AlreadyPromised' = [AlreadyPromised EXCEPT ![n] = TRUE]
        /\ msgs' = msgs \cup
              {Message("PREPARE", n, p, seq, n, NoBlock, <<>>) : p \in Peers(n)}
        /\ read' = {m \in read : m.From # n}
        /\ task' = [task EXCEPT ![t] =
              [IdleTask EXCEPT !.pc = "prepare", !.txn = txn,
                               !.attempts = attempts, !.promises = {n}]]

\* Step 1: a fresh ballot, Prepare to every peer, the proposer promised.
sendPrepare(t, txn, attempts) ==
    LET n == t[1]
        seq == SeqNum[n] + 1
    IN  /\ SeqNum' = [SeqNum EXCEPT ![n] = seq]
        /\ AlreadyPromised' = [AlreadyPromised EXCEPT ![n] = TRUE]
        /\ msgs' = msgs \cup
              {Message("PREPARE", n, p, seq, n, NoBlock, <<>>) : p \in Peers(n)}
        /\ read' = {m \in read : m.From # n}
        /\ task' = [task EXCEPT ![t] =
              [IdleTask EXCEPT !.pc = "prepare", !.txn = txn,
                               !.attempts = attempts, !.promises = {n}]]

\* The entry of execPaxosRun: the first round.
execPaxosRun(t, txn) ==
    /\ RoundsRun < MaxRounds
    /\ sendPrepare(t, txn, 1)
    /\ UNCHANGED <<Blockchain, Log, Status, Redis, conns, topo>>

\* The responses of one kind to the proposer's current ballot.
Responses(n, type) ==
    {m \in msgs : /\ m.Type = type
                  /\ m.To = n
                  /\ <<m.BallotSeq, m.ProposerId>> = Ballot(n)}

\* The longest chain among the proposer's and the promisers'.
RECURSIVE Reconcile(_, _)
Reconcile(chain, ms) ==
    IF ms = {} THEN chain
    ELSE LET m == CHOOSE x \in ms : TRUE
         IN  Reconcile(IF Len(m.Chain) > Len(chain) THEN m.Chain ELSE chain,
                       ms \ {m})

\* The proposer's messages that no peer has read yet.
Pending(n) == {m \in msgs : m.From = n /\ m.Type \in {"PREPARE", "ACCEPT"}}

roundFailedNoCap(t) ==
    LET n == t[1]
    IN  /\ Pending(n) = {}
        /\ IF task[t].attempts < MaxAttempts
           THEN /\ sendPrepare(t, task[t].txn, task[t].attempts + 1)
                /\ UNCHANGED <<Blockchain, Log, Status, Redis, conns, topo>>
           ELSE /\ msgs' = msgs \cup
                      {Message("PREPARE", n, p, SeqNum[n], n, NoBlock, <<>>)
                          : p \in Peers(n)}
                /\ read' = {m \in read : m.From # n}
                /\ UNCHANGED <<Blockchain, Log, SeqNum, Status, AlreadyPromised,
                               Redis, conns, topo, task>>

\* A round that did not reach quorum: a fresh ballot, or a quorum failure.
\* The wait times out once every peer has read its message or is unreachable
\* (a peer slower than the timeout is an unreachable one).
roundFailed(t) ==
    LET n == t[1]
    IN  /\ Pending(n) = {}
        /\ IF task[t].attempts < MaxAttempts
           THEN /\ sendPrepare(t, task[t].txn, task[t].attempts + 1)
                /\ UNCHANGED <<Blockchain, Log, Status, Redis, conns, topo>>
           ELSE /\ task' = [task EXCEPT ![t] =
                               [IdleTask EXCEPT !.result = "failed",
                                                !.promises = task[t].promises]]
                /\ AlreadyPromised' = [AlreadyPromised EXCEPT ![n] = FALSE]
                /\ read' = {m \in read : m.From # n}
                /\ UNCHANGED <<Blockchain, Log, SeqNum, Status, Redis, conns, topo,
                               msgs>>

\* Steps 3, 4 and 6: the proposer stops waiting, on quorum or on timeout.
execPaxosAwait(t) ==
    LET n == t[1]
        promised == Responses(n, "PROMISE")
        promises == {n} \cup {m.From : m \in promised}
        accepted == {n} \cup {m.From : m \in Responses(n, "ACCEPTED")}
        chain == Reconcile(Blockchain[n], promised)
        block == [SeqNum |-> Len(chain) + 1,
                  Transactions |-> <<task[t].txn>>, ProposerId |-> n]
    IN  /\ t \in conns
        /\ task[t].pc \in {"prepare", "accept"}
        /\ IF task[t].pc = "prepare"
           THEN IF Cardinality(promises) >= Quorum
                THEN /\ Blockchain' = [Blockchain EXCEPT ![n] = chain]
                     /\ Status' = [Status EXCEPT ![n] = LEADER]
                     /\ msgs' = (msgs \ promised) \cup
                           {Message("ACCEPT", n, p, SeqNum[n], n, block, <<>>)
                               : p \in Peers(n)}
                     /\ task' = [task EXCEPT ![t].pc = "accept",
                                             ![t].promises = promises]
                     /\ UNCHANGED <<Log, SeqNum, AlreadyPromised, Redis, conns, topo,
                                    read>>
                ELSE roundFailed(t)
           ELSE IF Cardinality(accepted) >= Quorum
                THEN /\ Blockchain' = [Blockchain EXCEPT ![n] =
                           Append(Blockchain[n],
                                  [SeqNum |-> Len(Blockchain[n]) + 1,
                                   Transactions |-> <<task[t].txn>>,
                                   ProposerId |-> n])]
                     /\ AlreadyPromised' = [AlreadyPromised EXCEPT ![n] = FALSE]
                     /\ msgs' = msgs \ Responses(n, "ACCEPTED")
                     /\ read' = {m \in read : m.From # n}
                     /\ task' = [task EXCEPT ![t] =
                                    [IdleTask EXCEPT !.result = "committed"]]
                     /\ UNCHANGED <<Log, SeqNum, Status, Redis, conns, topo>>
                ELSE roundFailed(t)

\* ------------------------------------------------------------------------
\* The handlers (server.go)
\* ------------------------------------------------------------------------

\* processTxnRequest on a server whose requests arrive on one connection:
\* the admission decision, then execLocalTxn or execPaxosRun.
processTxnRequest(t, txn) ==
    LET n == t[1]
        runPaxos == checkIfTxnPossible(n, txn)
    IN  /\ t \in conns
        /\ task[t].pc = "idle"
        /\ IF ~runPaxos
           THEN /\ TotalLog < MaxLog
                /\ Log' = [Log EXCEPT ![n] = execLocalTxn(Log[n], txn)]
                /\ Redis' = [Redis EXCEPT ![n] = Log'[n]]
                /\ task' = [task EXCEPT ![t] = IdleTask]
                /\ UNCHANGED <<Blockchain, SeqNum, Status, AlreadyPromised,
                               conns, topo, msgs, read>>
           ELSE execPaxosRun(t, txn)

ClientResponseCommitted(n) ==
    [MessageType |-> "SHOW_BALANCE", Balance |-> getBalance(n), ClientId |-> n]

\* The response processBalanceRequest builds: getLocalBalance and server.Id.
ClientResponse(n) ==
    [MessageType |-> "SHOW_BALANCE", Balance |-> getLocalBalance(n),
     ClientId |-> n]

\* processBalanceRequest: the response is written to the connection the
\* request came on.
processBalanceRequest(t) ==
    LET n == t[1]
    IN  /\ t \in conns
        /\ task[t].pc = "idle"
        /\ task' = [task EXCEPT ![t].resp = ClientResponse(n)]
        /\ UNCHANGED <<Blockchain, Log, SeqNum, Status, AlreadyPromised, Redis,
                       conns, topo, msgs, read>>

\* processElectionRequest: the body is empty.
processElectionRequest(n, m) ==
    UNCHANGED <<Blockchain, Log, SeqNum, Status, AlreadyPromised, Redis>>

\* handleIncomingConnections on a peer's connection: a Prepare goes to
\* processElectionRequest, and the switch has no case for any other
\* consensus message.
handleIncomingConnections(m) ==
    /\ m \in msgs
    /\ m.Type \in {"PREPARE", "ACCEPT"}
    /\ msgs' = msgs \ {m}
    /\ read' = IF <<m.BallotSeq, m.ProposerId>> = Ballot(m.ProposerId)
                  /\ AlreadyPromised[m.ProposerId]
               THEN read \cup {m} ELSE read
    /\ IF m.Type = "PREPARE"
       THEN processElectionRequest(m.To, m)
       ELSE UNCHANGED <<Blockchain, Log, SeqNum, Status, AlreadyPromised, Redis>>
    /\ UNCHANGED <<conns, topo, task>>

\* A message written to a peer that is unreachable never arrives.
LoseMessage(m) ==
    /\ m \in msgs
    /\ m.Type \in {"PREPARE", "ACCEPT"}
    /\ msgs' = msgs \ {m}
    /\ UNCHANGED <<Blockchain, Log, SeqNum, Status, AlreadyPromised, Redis,
                   conns, topo, task, read>>

\* The clients send transfers; their balance queries, which write a response
\* and touch no field of the server, are in SpecLedger, SpecRestart and
\* SpecDecode.
Next ==
    \/ \E t \in Tasks : \E txn \in ClientTxns(t[1]) : processTxnRequest(t, txn)
    \/ \E t \in Tasks : execPaxosAwait(t)
    \/ \E m \in msgs : handleIncomingConnections(m)
    \/ \E m \in msgs : LoseMessage(m)

Spec == Init /\ [][Next]_vars

\* The transfers of at least the starting balance: on a new server they
\* take the consensus path.
RoundTxns(n) == {txn \in ClientTxns(n) : txn.Amount >= StartBalance}

NextRounds ==
    \/ \E t \in Tasks : \E txn \in RoundTxns(t[1]) : processTxnRequest(t, txn)
    \/ \E t \in Tasks : execPaxosAwait(t)
    \/ \E m \in msgs : handleIncomingConnections(m)
    \/ \E m \in msgs : LoseMessage(m)

\* A proposer's wait ends, by a quorum or by its timeout; a message written
\* to a peer connection is read by the peer's loop or lost.
SpecRounds ==
    /\ Init
    /\ [][NextRounds]_vars
    /\ \A t \in Tasks : WF_vars(execPaxosAwait(t))
    /\ WF_vars(\E m \in msgs : handleIncomingConnections(m) \/ LoseMessage(m))

\* ------------------------------------------------------------------------
\* The balance functions and the admission decision over drawn ledgers
\* ------------------------------------------------------------------------

\* Transactions between client 1 and client 2, in every role client 1 can
\* have: sender, receiver, both, neither.
LedgerTxns == {txn \in Txns : txn.Sender \in {1, 2} /\ txn.Recvr \in {1, 2}}

LedgerSeqs == UNION {[1..k -> LedgerTxns] : k \in 0..MaxLedgerTxns}

\* s[i..j] as a block at sequence number seq, proposed by server 2.
BlockOf(s, i, j, seq) ==
    [SeqNum |-> seq, Transactions |-> SubSeq(s, i, j), ProposerId |-> 2]

\* s split in a chain of at most two blocks, s[1..i] and s[i+1..j], and a
\* log s[j+1..Len(s)].
ChainOf(s, i, j) ==
    IF i = 0 /\ j = 0 THEN <<>>
    ELSE IF i = 0 \/ i = j THEN <<BlockOf(s, 1, j, 1)>>
    ELSE <<BlockOf(s, 1, i, 1), BlockOf(s, i + 1, j, 2)>>

InitLedger ==
    \E s \in LedgerSeqs : \E j \in 0..Len(s) : \E i \in 0..j :
        /\ Blockchain = [n \in Servers |-> IF n = 1 THEN ChainOf(s, i, j) ELSE <<>>]
        /\ Log = [n \in Servers |-> IF n = 1 THEN SubSeq(s, j + 1, Len(s)) ELSE <<>>]
        /\ SeqNum = [n \in Servers |-> 1]
        /\ Status = [n \in Servers |-> FOLLOWER]
        /\ AlreadyPromised = [n \in Servers |-> FALSE]
        /\ Redis = Log
        /\ conns = {<<1, 1>>}
        /\ task = [t \in Tasks |-> IdleTask]
        /\ msgs = {}
        /\ read = {}
        /\ topo = TopoUp

NextLedger ==
    \/ \E txn \in ClientTxns(1) : processTxnRequest(<<1, 1>>, txn)
    \/ processBalanceRequest(<<1, 1>>)

SpecLedger == InitLedger /\ [][NextLedger]_vars

\* ------------------------------------------------------------------------
\* Two client connections on server 1: one task each, no lock taken
\* ------------------------------------------------------------------------

ConcTxns == {[Sender |-> 1, Recvr |-> 2, Amount |-> a] : a \in {60, 100}}

InitConc ==
    /\ InitServer
    /\ Redis = [n \in Servers |-> <<>>]
    /\ conns = {<<1, 1>>, <<1, 2>>}
    /\ task = [t \in Tasks |-> IdleTask]
    /\ msgs = {}
    /\ read = {}
    /\ topo = TopoUp

\* The tasks that have decided and not yet finished.
Deciding(pcs) == {t \in conns : task[t].pc \in pcs}

\* processTxnRequest up to the return of checkIfTxnPossible.
checkIfTxnPossibleStep(t, txn) ==
    LET n == t[1]
        runPaxos == checkIfTxnPossible(n, txn)
    IN  /\ t \in conns
        /\ task[t].pc = "idle"
        /\ IF runPaxos
           THEN RoundsRun + Cardinality(Deciding({"paxos"})) < MaxRounds
           ELSE TotalLog + Cardinality(Deciding({"local", "append"})) < MaxLog
        /\ task' = [task EXCEPT ![t] =
              [IdleTask EXCEPT !.pc = IF runPaxos THEN "paxos" ELSE "local",
                               !.txn = txn,
                               !.balance = getLocalBalance(n)]]
        /\ UNCHANGED <<Blockchain, Log, SeqNum, Status, AlreadyPromised, Redis,
                       conns, topo, msgs, read>>

\* execLocalTxn: append reads server.Log ...
execLocalTxnLoad(t) ==
    /\ t \in conns
    /\ task[t].pc = "local"
    /\ task' = [task EXCEPT ![t].pc = "append", ![t].logRead = Log[t[1]]]
    /\ UNCHANGED <<Blockchain, Log, SeqNum, Status, AlreadyPromised, Redis,
                   conns, topo, msgs, read>>

\* ... and assigns the grown slice to server.Log, then writes it to redis.
execLocalTxnStore(t) ==
    /\ t \in conns
    /\ task[t].pc = "append"
    /\ Log' = [Log EXCEPT ![t[1]] = execLocalTxn(task[t].logRead, task[t].txn)]
    /\ Redis' = [Redis EXCEPT ![t[1]] = Log'[t[1]]]
    /\ task' = [task EXCEPT ![t] = IdleTask]
    /\ UNCHANGED <<Blockchain, SeqNum, Status, AlreadyPromised, conns, topo, msgs,
                   read>>

\* processTxnRequest's call of execPaxosRun.
execPaxosRunStep(t) ==
    /\ t \in conns
    /\ task[t].pc = "paxos"
    /\ sendPrepare(t, task[t].txn, 1)
    /\ UNCHANGED <<Blockchain, Log, Status, Redis, conns, topo>>

NextConc ==
    \/ \E t \in Tasks : \E txn \in ConcTxns : checkIfTxnPossibleStep(t, txn)
    \/ \E t \in Tasks : execLocalTxnLoad(t)
    \/ \E t \in Tasks : execLocalTxnStore(t)
    \/ \E t \in Tasks : execPaxosRunStep(t)
    \/ \E t \in Tasks : execPaxosAwait(t)
    \/ \E m \in msgs : handleIncomingConnections(m)
    \/ \E m \in msgs : LoseMessage(m)

SpecConc == InitConc /\ [][NextConc]_vars

\* ------------------------------------------------------------------------
\* A server process that crashes and is started again
\* ------------------------------------------------------------------------

\* Start after a crash: InitServer builds every field anew and opens the
\* redis client, and nothing reads the stored log back. The handlers of the
\* old process are gone; what it wrote to its peers and to redis stays.
Restart(n) ==
    /\ Blockchain' = [Blockchain EXCEPT ![n] = <<>>]
    /\ Log' = [Log EXCEPT ![n] = <<>>]
    /\ SeqNum' = [SeqNum EXCEPT ![n] = 1]
    /\ Status' = [Status EXCEPT ![n] = FOLLOWER]
    /\ AlreadyPromised' = [AlreadyPromised EXCEPT ![n] = FALSE]
    /\ task' = [t \in Tasks |-> IF t[1] = n THEN IdleTask ELSE task[t]]
    /\ read' = {m \in read : m.From # n}
    /\ UNCHANGED <<Redis, conns, topo, msgs>>

\* The requests of clients 1 and 2 and the restarts of their servers; the
\* peers' reading of messages changes no server's ledger and is left to Spec.
NextRestart ==
    \/ \E n \in {1, 2} : \E txn \in ClientTxns(n) :
          processTxnRequest(<<n, 1>>, txn)
    \/ \E n \in {1, 2} : processBalanceRequest(<<n, 1>>)
    \/ \E n \in {1, 2} : Restart(n)

SpecRestart == Init /\ [][NextRestart]_vars

\* ------------------------------------------------------------------------
\* The decode loop of handleIncomingConnections on a client connection
\* ------------------------------------------------------------------------

\* What a client writes to its connection: a transfer, a balance query, bytes
\* that are not JSON ("SYNTAX"), and JSON whose fields have the wrong types
\* ("TYPE").
Requests(n) ==
    {[Type |-> "TRANSACTION", Txn |-> txn] : txn \in ClientTxns(n)}
        \cup {[Type |-> k, Txn |-> NoTxn] : k \in {"SHOW_BALANCE", "SYNTAX", "TYPE"}}

\* One turn of the loop with req the next bytes on the connection. The
\* json.Decoder keeps a syntax error: once it has returned one, every later
\* Decode returns it again without reading, and the loop continues. A type
\* error is returned once, the value having been read. A decoded request is
\* dispatched on its Type. dropped is the kind of the last request the loop
\* did not dispatch.
decodeAndDispatch(t, req) ==
    /\ t \in conns
    /\ task[t].pc = "idle"
    /\ IF task[t].decErr
       THEN /\ task' = [task EXCEPT ![t].dropped = req.Type]
            /\ UNCHANGED <<Blockchain, Log, SeqNum, Status, AlreadyPromised,
                           Redis, conns, topo, msgs, read>>
       ELSE IF req.Type = "SYNTAX"
       THEN /\ task' = [task EXCEPT ![t].decErr = TRUE,
                                    ![t].dropped = req.Type]
            /\ UNCHANGED <<Blockchain, Log, SeqNum, Status, AlreadyPromised,
                           Redis, conns, topo, msgs, read>>
       ELSE IF req.Type = "TYPE"
       THEN /\ task' = [task EXCEPT ![t].dropped = req.Type]
            /\ UNCHANGED <<Blockchain, Log, SeqNum, Status, AlreadyPromised,
                           Redis, conns, topo, msgs, read>>
       ELSE IF req.Type = "TRANSACTION"
       THEN processTxnRequest(t, req.Txn)
       ELSE processBalanceRequest(t)

\* The requests of clients 1 and 2, well-formed or not.
NextDecode ==
    \E n \in {1, 2} : \E req \in Requests(n) : decodeAndDispatch(<<n, 1>>, req)

SpecDecode == Init /\ [][NextDecode]_vars

\* ------------------------------------------------------------------------
\* A peer that is sent an Accept
\* ------------------------------------------------------------------------

\* A proposer that holds a quorum of promises for ballot (2, p) has written
\* Accept for the block of its transfer to both peers: the state the quorum
\* branch of execPaxosAwait leaves. The peers have read nothing yet.
InitAccept ==
    \E p \in Servers : \E q \in Peers(p) :
      \E txn \in {x \in ClientTxns(p) : x.Amount >= StartBalance} :
        LET block == [SeqNum |-> 1, Transactions |-> <<txn>>, ProposerId |-> p]
        IN  /\ Blockchain = [n \in Servers |-> <<>>]
            /\ Log = [n \in Servers |-> <<>>]
            /\ SeqNum = [n \in Servers |-> IF n = p THEN 2 ELSE 1]
            /\ Status = [n \in Servers |-> IF n = p THEN LEADER ELSE FOLLOWER]
            /\ AlreadyPromised = [n \in Servers |-> n = p]
            /\ Redis = [n \in Servers |-> <<>>]
            /\ conns = {<<n, 1>> : n \in Servers}
            /\ task = [t \in Tasks |->
                  IF t = <<p, 1>>
                  THEN [IdleTask EXCEPT !.pc = "accept", !.txn = txn,
                                        !.attempts = 1, !.promises = {p, q}]
                  ELSE IdleTask]
            /\ msgs = {Message("ACCEPT", p, r, 2, p, block, <<>>) : r \in Peers(p)}
            /\ read = {}
            /\ topo = TopoUp

SpecAccept == InitAccept /\ [][Next]_vars

\* ------------------------------------------------------------------------
\* Server 1 from the starting balance, amounts around half of it
\* ------------------------------------------------------------------------

\* Amounts that bring a balance of 100 next to the amount asked for.
EdgeAmounts == {49, 50, 51}

\* Transfers between clients 1 and 2 in every role of client 1.
EdgeTxns == [Sender : {1, 2}, Recvr : {1, 2}, Amount : EdgeAmounts]

NextLocal ==
    \/ \E txn \in EdgeTxns : processTxnRequest(<<1, 1>>, txn)
    \/ execPaxosAwait(<<1, 1>>)
    \/ \E m \in msgs : handleIncomingConnections(m)
    \/ \E m \in msgs : LoseMessage(m)

SpecLocal == Init /\ [][NextLocal]_vars

\* ------------------------------------------------------------------------
\* Start: InitServer, createTopology, then the listener
\* ------------------------------------------------------------------------

\* A server at the call of createTopology: the backoff b is new (attempt 0)
\* and no peer has been taken from server.Peers.
TopoStart ==
    [pc |-> "range", idx |-> 0, attempt |-> 0, dials |-> 0, conn |-> {}]

\* Some servers are up already, the others are being started.
InitTopology ==
    /\ InitServer
    /\ Redis = [n \in Servers |-> <<>>]
    /\ conns = {}
    /\ task = [t \in Tasks |-> IdleTask]
    /\ msgs = {}
    /\ read = {}
    /\ \E up \in SUBSET Servers :
          topo = [n \in Servers |-> IF n \in up THEN TopoUp[n] ELSE TopoStart]

\* The head of the loop over server.Peers: b.Duration() is called once for
\* the next peer, which advances b's attempt by one; past the last peer
\* createTopology returns and Start spawns startListener.
rangePeers(n) ==
    /\ topo[n].pc = "range"
    /\ topo' = [topo EXCEPT ![n] =
          IF topo[n].idx < Len(PeerList(n))
          THEN [topo[n] EXCEPT !.pc = "dial", !.idx = topo[n].idx + 1,
                               !.attempt = topo[n].attempt + 1, !.dials = 0]
          ELSE [topo[n] EXCEPT !.pc = "listen"]]
    /\ UNCHANGED <<Blockchain, Log, SeqNum, Status, AlreadyPromised, Redis,
                   conns, task, msgs, read>>

\* net.Dial to the current peer: it succeeds when the peer's listener
\* accepts. On an error the loop goes on while b.Attempt(), which nothing
\* in the loop advances, is at most MaxReconnectAttempts, and panics
\* otherwise.
dial(n) ==
    LET peer == PeerList(n)[topo[n].idx]
    IN  /\ topo[n].pc = "dial"
        /\ topo' = [topo EXCEPT ![n] =
              IF topo[peer].pc = "accept"
              THEN [topo[n] EXCEPT !.pc = "range",
                                   !.conn = topo[n].conn \cup {peer}]
              ELSE IF topo[n].attempt <= MaxReconnectAttempts
                   THEN [topo[n] EXCEPT
                            !.pc = "sleep",
                            !.dials = IF topo[n].dials < MaxDials
                                      THEN topo[n].dials + 1 ELSE MaxDials]
                   ELSE [topo[n] EXCEPT !.pc = "panic"]]
        /\ UNCHANGED <<Blockchain, Log, SeqNum, Status, AlreadyPromised, Redis,
                       conns, task, msgs, read>>

\* time.Sleep(d), then continue.
sleep(n) ==
    /\ topo[n].pc = "sleep"
    /\ topo' = [topo EXCEPT ![n].pc = "dial"]
    /\ UNCHANGED <<Blockchain, Log, SeqNum, Status, AlreadyPromised, Redis,
                   conns, task, msgs, read>>

\* startListener: net.Listen on the server's port, then the Accept loop.
startListener(n) ==
    /\ topo[n].pc = "listen"
    /\ topo' = [topo EXCEPT ![n].pc = "accept"]
    /\ UNCHANGED <<Blockchain, Log, SeqNum, Status, AlreadyPromised, Redis,
                   conns, task, msgs, read>>

\* One step of Start on server n.
Start(n) == rangePeers(n) \/ dial(n) \/ sleep(n) \/ startListener(n)

NextTopology ==
    \/ \E n \in Servers : rangePeers(n)
    \/ \E n \in Servers : dial(n)
    \/ \E n \in Servers : sleep(n)
    \/ \E n \in Servers : startListener(n)

\* Every server being started is a running process: it keeps taking steps.
SpecTopology ==
    InitTopology /\ [][NextTopology]_vars /\ \A n \in Servers : WF_vars(Start(n))

\* ------------------------------------------------------------------------
\* Properties
\* ------------------------------------------------------------------------

RECURSIVE SumAmounts(_, _)
SumAmounts(txns, idx) ==
    IF idx = {} THEN 0
    ELSE LET i == CHOOSE x \in idx : TRUE
         IN  txns[i].Amount + SumAmounts(txns, idx \ {i})

\* The amounts of txns received by, and sent by, client c.
Received(txns, c) ==
    SumAmounts(txns, {i \in 1..Len(txns) : txns[i].Recvr = c})
Sent(txns, c) ==
    SumAmounts(txns, {i \in 1..Len(txns) : txns[i].Sender = c})

\* The transactions of a chain, in order.
RECURSIVE Flatten(_)
Flatten(blocks) ==
    IF blocks = <<>> THEN <<>>
    ELSE Head(blocks).Transactions \o Flatten(Tail(blocks))

\* C2: for any Blockchain and Log, getLocalBalance is 100 plus the amounts
\* received by the associated client minus the amounts it sent, over the
\* blockchain and the log; getBalance is the same over the blockchain alone.
C2_BalanceFormula ==
    \A n \in Servers :
        LET c == AssociatedClient(n)
            chain == Flatten(Blockchain[n])
            all == chain \o Log[n]
        IN  /\ getLocalBalance(n) = 100 + Received(all, c) - Sent(all, c)
            /\ getBalance(n) = 100 + Received(chain, c) - Sent(chain, c)

\* A ledger whose blockchain holds a transfer sent by client 1 and whose log
\* holds one it received: the log moves getLocalBalance and not getBalance.
C2_Witness ==
    /\ Len(Blockchain[1]) = 1
    /\ Len(Log[1]) = 1
    /\ getBalance(1) = 90
    /\ getLocalBalance(1) = 190

PromiseHolders(n) ==
    {n} \cup {m.From : m \in {x \in msgs : /\ x.Type = "PROMISE"
                                           /\ x.To = n
                                           /\ x.BallotSeq = SeqNum[n]
                                           /\ x.ProposerId = n}}

\* C5: a round sends no Accept, and does not enter its Accept phase, unless
\* the proposer holds Promise from at least 2 of the 3 servers, itself
\* included.
C5_AcceptNeedsQuorum ==
    [][/\ \A m \in msgs' \ msgs :
             m.Type = "ACCEPT" => Cardinality(PromiseHolders(m.From)) >= 2
       /\ \A t \in conns :
             (task[t].pc # "accept" /\ task'[t].pc = "accept")
                 => Cardinality(PromiseHolders(t[1])) >= 2]_vars

\* A round has ended holding the proposer's own promise alone, and no Accept
\* was sent and nothing committed.
C5_Witness ==
    \E t \in conns :
        /\ task[t].result = "failed"
        /\ task[t].promises = {t[1]}
        /\ \A m \in msgs \cup read : m.Type # "ACCEPT"
        /\ Blockchain[t[1]] = <<>>

C4_AtomicAdmission ==
    \A t \in conns :
        task[t].pc \in {"local", "append"} =>
            task[t].balance = getLocalBalance(t[1])

\* C6: a server that has promised nothing and reads a Prepare promises it.
C6_PromiseOnGreaterBallot ==
    \A m \in read :
        (m.Type = "PREPARE" /\ SeqNum[m.To] = 1) => AlreadyPromised[m.To]

\* The peers that have read the Prepare of the proposer's current ballot.
PeersRead(n) ==
    {m.To : m \in {x \in read : /\ x.From = n
                                /\ x.Type = "PREPARE"
                                /\ <<x.BallotSeq, x.ProposerId>> = Ballot(n)}}

\* The servers whose blockchain in chains holds, at sequence number seq, a
\* block of exactly txn.
CommittedAt(chains, txn, seq) ==
    {p \in Servers : /\ Len(chains[p]) >= seq
                     /\ chains[p][seq].Transactions = <<txn>>}

\* C9: a consensus request whose Prepare both peers have read ends with the
\* block of its transfer committed on all three servers at one sequence
\* number.
C9_ConsensusCommits ==
    [][\A n \in Servers :
          (/\ task[<<n, 1>>].pc = "prepare"
           /\ PeersRead(n) = Peers(n)
           /\ task'[<<n, 1>>].pc = "idle")
          => \E seq \in 1..(Len(Blockchain'[n]) + 1) :
                CommittedAt(Blockchain', task[<<n, 1>>].txn, seq) = Servers]_vars

\* C10: a consensus request whose Prepare one peer has read, the other peer
\* being unreachable, ends committed on the proposer.
C10_OnePeerSuffices ==
    [][\A n \in Servers :
          (/\ task[<<n, 1>>].pc = "prepare"
           /\ Cardinality(PeersRead(n)) = 1
           /\ task'[<<n, 1>>].pc = "idle")
          => /\ task'[<<n, 1>>].result = "committed"
             /\ \E seq \in 1..(Len(Blockchain'[n]) + 1) :
                   n \in CommittedAt(Blockchain', task[<<n, 1>>].txn, seq)]_vars

\* C11: a server that crashes and restarts has the Log, and so the
\* getLocalBalance, it had after its last local append.
C11_LogSurvivesRestart ==
    [][\A n \in Servers :
          Restart(n) => /\ Log'[n] = Log[n]
                        /\ getLocalBalance(n)' = getLocalBalance(n)]_vars

\* C12: a balance query is answered with the server's client id and with
\* getLocalBalance at the time of the query, 100 plus the amounts received
\* minus the amounts sent over the Blockchain and the Log, and leaves Log,
\* Blockchain, SeqNum, Status and AlreadyPromised unchanged.
C12_BalanceQuery ==
    [][\A n \in Servers :
          LET c == AssociatedClient(n)
              all == Flatten(Blockchain[n]) \o Log[n]
          IN  (task[<<n, 1>>].pc = "idle" /\ processBalanceRequest(<<n, 1>>))
              => /\ task'[<<n, 1>>].resp.MessageType = "SHOW_BALANCE"
                 /\ task'[<<n, 1>>].resp.ClientId = c
                 /\ task'[<<n, 1>>].resp.Balance =
                        100 + Received(all, c) - Sent(all, c)
                 /\ task'[<<n, 1>>].resp.Balance = getLocalBalance(n)'
                 /\ Log' = Log
                 /\ Blockchain' = Blockchain
                 /\ SeqNum' = SeqNum
                 /\ Status' = Status
                 /\ AlreadyPromised' = AlreadyPromised]_vars

\* Server 1 answered a query with a balance that counts a transfer held in
\* its Log only.
C12_Witness ==
    /\ task[<<1, 1>>].resp.MessageType = "SHOW_BALANCE"
    /\ task[<<1, 1>>].resp.ClientId = 1
    /\ Log[1] # <<>>
    /\ task[<<1, 1>>].resp.Balance = getLocalBalance(1)
    /\ task[<<1, 1>>].resp.Balance # getBalance(1)

\* C13: createTopology dials a peer that never accepts a bounded number of
\* times, the first dial and at most MaxReconnectAttempts more.
C13_BoundedDials ==
    \A n \in Servers : topo[n].dials <= 1 + MaxReconnectAttempts

\* C14: a request that decodes is dispatched, whatever was read on its
\* connection before: the loop drops no transfer and no balance query.
C14_WellFormedDispatched ==
    \A t \in conns : task[t].dropped \notin {"TRANSACTION", "SHOW_BALANCE"}

\* C15: a peer that has promised no greater ballot and reads an Accept has
\* committed its Block: the Block is in the peer's Blockchain.
C15_AcceptCommits ==
    \A m \in read :
        m.Type = "ACCEPT" =>
            \E i \in 1..Len(Blockchain[m.To]) : Blockchain[m.To][i] = m.Block

\* C16: a server's SeqNum starts at 1 and never decreases, and every
\* Prepare it sends, a retry included, carries a ballot sequence greater
\* than the SeqNum it had, which becomes its SeqNum; on sending it the
\* proposer is promised and holds its own promise.
C16_FreshBallot ==
    [][/\ \A n \in Servers : SeqNum'[n] >= SeqNum[n] /\ SeqNum[n] >= 1
       /\ \A m \in msgs' \ msgs :
             m.Type = "PREPARE" =>
                /\ m.ProposerId = m.From
                /\ m.BallotSeq > SeqNum[m.From]
                /\ m.BallotSeq = SeqNum'[m.From]
                /\ AlreadyPromised'[m.From]
                /\ m.From \in task'[<<m.From, 1>>].promises
       /\ \A n \in Servers :
             (/\ task'[<<n, 1>>].pc = "prepare"
              /\ task'[<<n, 1>>].attempts # task[<<n, 1>>].attempts)
                 => /\ SeqNum'[n] > SeqNum[n]
                    /\ \A p \in Peers(n) :
                          \E m \in msgs' \ msgs :
                             /\ m.Type = "PREPARE"
                             /\ m.From = n
                             /\ m.To = p]_vars

\* A proposer that has sent the Prepare of a retry: its second ballot is 3,
\* after 1 at the start and 2 in the first round, and it is promised.
C16_Witness ==
    \E n \in Servers :
        /\ task[<<n, 1>>].pc = "prepare"
        /\ task[<<n, 1>>].attempts = 2
        /\ SeqNum[n] = 3
        /\ AlreadyPromised[n]
        /\ \E m \in msgs : m.Type = "PREPARE" /\ m.From = n /\ m.BallotSeq = 3

C19_ClusterStarts ==
    (\A n \in Servers : topo[n] = TopoStart)
        ~> (\A n \in Servers : topo[n].pc = "accept" /\ topo[n].conn = Peers(n))

====
